---- MODULE Spec2Model ----
(***************************************************************************)
(* Model of middleware/constrained_model_sanitizer.go (hellojph/one-api).  *)
(*                                                                         *)
(* The source file carries two revisions of the middleware:                *)
(*   revision 1, lines 18-122: all generation routes                       *)
(*   revision 2, lines 141-231: /v1/chat/completions only                  *)
(* Both are modelled; the variable rev says which one is installed.        *)
(*                                                                         *)
(* Encodings                                                               *)
(*   string  a sequence of one-character strings, <<"o","1">> is "o1"      *)
(*   path    a sequence of chunks taken from a prefix-free alphabet, so    *)
(*           that strings.HasPrefix is a test on the first chunk and       *)
(*           strings.Contains(path,"/runs") a test for the chunk "/runs"   *)
(*   bytes   a sequence of tokens: "{", one token per object member in     *)
(*           wire order, "}".  len(b) is the number of tokens.             *)
(*   number  [hi, lo] stands for the integer literal hi * 2^53 + lo        *)
(***************************************************************************)
EXTENDS Integers, Sequences, FiniteSets, TLC

(* ------------------------------ bounds --------------------------------- *)
MaxMembers == 3     \* members of an inbound JSON object
MaxPasses  == 2     \* times a body is sent through the middleware
MaxPad     == 1     \* spaces put around a model name
MaxExt     == 2     \* entries of ONEAPI_CONSTRAINED_MODELS

(* ------------------------------ strings -------------------------------- *)
\* strings.ToLower, one character
ToLowerChar(c) ==
  CASE c = "O" -> "o" [] c = "G" -> "g" [] c = "P" -> "p" [] c = "T" -> "t"
    [] c = "M" -> "m" [] c = "I" -> "i" [] c = "N" -> "n" [] c = "F" -> "f"
    [] c = "X" -> "x" [] OTHER -> c

\* strings.ToUpper, one character (only used to build inputs)
ToUpperChar(c) ==
  CASE c = "o" -> "O" [] c = "g" -> "G" [] c = "p" -> "P" [] c = "t" -> "T"
    [] c = "m" -> "M" [] c = "i" -> "I" [] c = "n" -> "N" [] c = "f" -> "F"
    [] c = "x" -> "X" [] OTHER -> c

ToLower(s) == [i \in 1..Len(s) |-> ToLowerChar(s[i])]

ToUpper(s) == [i \in 1..Len(s) |-> ToUpperChar(s[i])]

IsSpace(c) == c = " "

RECURSIVE TrimLeft(_)
TrimLeft(s) == IF s # <<>> /\ IsSpace(Head(s)) THEN TrimLeft(Tail(s)) ELSE s

RECURSIVE TrimRight(_)
TrimRight(s) ==
  IF s # <<>> /\ IsSpace(s[Len(s)]) THEN TrimRight(SubSeq(s, 1, Len(s) - 1)) ELSE s

\* strings.TrimSpace
TrimSpace(s) == TrimRight(TrimLeft(s))

\* strings.HasPrefix on character sequences
HasPrefix(s, p) == Len(s) >= Len(p) /\ SubSeq(s, 1, Len(p)) = p

\* strings.EqualFold (ASCII): equal after case folding
EqualFold(s, t) == ToLower(s) = ToLower(t)

\* strings.Split(s, ","): the fields between the commas, empty ones included
RECURSIVE SplitFrom(_, _)
SplitFrom(s, cur) ==
  IF s = <<>> THEN <<cur>>
  ELSE IF Head(s) = "," THEN <<cur>> \o SplitFrom(Tail(s), <<>>)
  ELSE SplitFrom(Tail(s), Append(cur, Head(s)))

Split(s) == SplitFrom(s, <<>>)

(* --------------------------- model classifier -------------------------- *)
ExactNames1 ==
  { <<"g","p","t","-","4","o">>, <<"g","p","t","-","4","o","-","m","i","n","i">>,
    <<"g","p","t","-","5">>, <<"o","1">>, <<"o","1","-","m","i","n","i">>, <<"o","3">> }

ExactNames2 ==
  { <<"g","p","t","-","4","o">>, <<"g","p","t","-","5">>, <<"o","1">>,
    <<"o","1","-","m","i","n","i">>, <<"o","3">> }

Prefixes ==
  { <<"g","p","t","-","4","o","-">>, <<"g","p","t","-","5","-">>,
    <<"o","1","-">>, <<"o","3","-">> }

\* revision 1: the extension entries are compared with the model as given
isConstrainedModel1(model, env) ==
  LET m     == ToLower(TrimSpace(model))
      extra == TrimSpace(env)
  IN  IF m = <<>> THEN FALSE
      ELSE IF m \in ExactNames1 THEN TRUE
      ELSE IF \E p \in Prefixes : HasPrefix(m, p) THEN TRUE
      ELSE IF extra # <<>>
           THEN \E i \in 1..Len(Split(extra)) :
                   EqualFold(TrimSpace(Split(extra)[i]), model)
      ELSE FALSE

\* revision 2: the extension entries are compared with the normalised model
isConstrainedModel2(model, env) ==
  LET m     == ToLower(TrimSpace(model))
      extra == TrimSpace(env)
  IN  IF m = <<>> THEN FALSE
      ELSE IF m \in ExactNames2 THEN TRUE
      ELSE IF \E p \in Prefixes : HasPrefix(m, p) THEN TRUE
      ELSE IF extra # <<>>
           THEN \E i \in 1..Len(Split(extra)) :
                   ToLower(TrimSpace(Split(extra)[i])) = m
      ELSE FALSE

isConstrainedModel(r, model, env) ==
  IF r = 1 THEN isConstrainedModel1(model, env) ELSE isConstrainedModel2(model, env)

(* ------------------------------ JSON ----------------------------------- *)
Null      == [t |-> "null",   s |-> <<>>, hi |-> 0, lo |-> 0]
Str(s)    == [t |-> "string", s |-> s,    hi |-> 0, lo |-> 0]
Num(h, l) == [t |-> "number", s |-> <<>>, hi |-> h, lo |-> l]
\* a nested object, already in encoding/json's own output form
Nested    == [t |-> "object", s |-> <<"{","}">>, hi |-> 0, lo |-> 0]

Member(k, v) == [k |-> k, v |-> v]
LB == Member("{", Null)
RB == Member("}", Null)

\* the text of an object with the members ms, in that order
Wrap(ms) == <<LB>> \o ms \o <<RB>>

\* Go sorts map keys when it encodes a map: the field names, sorted
KeyOrder ==
  << "max_completion_tokens", "max_output_tokens", "max_tokens", "model",
     "seed", "temperature", "top_p" >>

\* json.Unmarshal into any stores a number as a float64: an integer below
\* 2^53 is exact, one in [2^53, 2^54) goes to the nearest even integer,
\* a tie to the one whose mantissa is even (a multiple of 4 above 2^53).
Float64(v) ==
  IF v.t = "number" /\ v.hi = 1 /\ v.lo % 2 = 1
  THEN Num(1, IF (v.lo - 1) % 4 = 0 THEN v.lo - 1 ELSE v.lo + 1)
  ELSE v

WellFormed(raw) ==
  /\ Len(raw) >= 2
  /\ raw[1] = LB
  /\ raw[Len(raw)] = RB
  /\ \A i \in 2..(Len(raw) - 1) : raw[i].k \notin {"{", "}"}

\* the index of the last member named k: a repeated name keeps its last value
LastIndex(raw, k) ==
  CHOOSE i \in 2..(Len(raw) - 1) :
     raw[i].k = k /\ \A j \in (i + 1)..(Len(raw) - 1) : raw[j].k # k

\* json.Unmarshal(raw, &body) with body a map[string]any
Unmarshal(raw) ==
  IF WellFormed(raw)
  THEN [ok   |-> TRUE,
        body |-> [k \in {raw[i].k : i \in 2..(Len(raw) - 1)} |->
                     Float64(raw[LastIndex(raw, k)].v)]]
  ELSE [ok |-> FALSE, body |-> <<>>]

RECURSIVE MarshalFrom(_, _)
MarshalFrom(body, i) ==
  IF i > Len(KeyOrder) THEN <<>>
  ELSE (IF KeyOrder[i] \in DOMAIN body
        THEN <<Member(KeyOrder[i], body[KeyOrder[i]])>> ELSE <<>>)
       \o MarshalFrom(body, i + 1)

\* json.Marshal(body): the members sorted by name.  A map that json.Unmarshal
\* produced holds only values json.Marshal accepts, so err is nil.
Marshal(body) == [ok |-> TRUE, bytes |-> Wrap(MarshalFrom(body, 1))]

\* delete(body, k)
Delete(body, k) == [x \in (DOMAIN body) \ {k} |-> body[x]]

\* body[k] = v
Set(body, k, v) == [x \in (DOMAIN body) \cup {k} |-> IF x = k THEN v ELSE body[x]]

\* model, _ := body["model"].(string)
ModelOf(body) ==
  IF "model" \in DOMAIN body /\ body["model"].t = "string" THEN body["model"].s ELSE <<>>

(* ------------------------------ routes --------------------------------- *)
PathHasPrefix(path, chunk) == path # <<>> /\ path[1] = chunk

PathContains(path, chunk) == \E i \in 1..Len(path) : path[i] = chunk

\* revision 1, the generation routes
RouteMatch1(path) ==
  \/ PathHasPrefix(path, "/v1/chat/completions")
  \/ PathHasPrefix(path, "/v1/completions")
  \/ PathHasPrefix(path, "/v1/responses")
  \/ (PathHasPrefix(path, "/v1/threads/") /\ PathContains(path, "/runs"))
  \/ (PathHasPrefix(path, "/v1/assistants") /\ PathContains(path, "/runs"))

\* revision 2, chat completions only
RouteMatch2(path) == PathHasPrefix(path, "/v1/chat/completions")

RouteMatch(r, path) == IF r = 1 THEN RouteMatch1(path) ELSE RouteMatch2(path)

(* ------------------------------ rewrite -------------------------------- *)
\* DropSampling without the second delete
DropSamplingM(body) == Delete(body, "temperature")

\* delete(body, "temperature"); delete(body, "top_p")
DropSampling(body) == Delete(Delete(body, "temperature"), "top_p")

\* Rename with the delete moved into the branch where dst already exists
RenameM(body, dst) ==
  IF dst \in DOMAIN body THEN Delete(body, "max_tokens")
  ELSE Set(body, dst, body["max_tokens"])

\* if _, ex := body[dst]; !ex { body[dst] = mt }; delete(body, "max_tokens")
Rename(body, dst) ==
  Delete(IF dst \in DOMAIN body THEN body ELSE Set(body, dst, body["max_tokens"]),
         "max_tokens")

\* mt, ok := body["max_tokens"]; ok && mt != nil
HasMaxTokens(body) == "max_tokens" \in DOMAIN body /\ body["max_tokens"].t # "null"

\* RenameMaxTokens1 without the case for the chat-style routes
RenameMaxTokens1M(body, path) ==
  IF ~HasMaxTokens(body) THEN body
  ELSE IF PathHasPrefix(path, "/v1/responses")
       THEN Rename(body, "max_output_tokens")
  ELSE IF \/ PathHasPrefix(path, "/v1/threads/")
          \/ (PathHasPrefix(path, "/v1/assistants") /\ PathContains(path, "/runs"))
       THEN Rename(body, "max_completion_tokens")
  ELSE body

\* revision 1: the switch on the path
RenameMaxTokens1(body, path) ==
  IF ~HasMaxTokens(body) THEN body
  ELSE IF PathHasPrefix(path, "/v1/responses")
       THEN Rename(body, "max_output_tokens")
  ELSE IF \/ PathHasPrefix(path, "/v1/threads/")
          \/ (PathHasPrefix(path, "/v1/assistants") /\ PathContains(path, "/runs"))
       THEN Rename(body, "max_completion_tokens")
  ELSE IF \/ PathHasPrefix(path, "/v1/chat/completions")
          \/ PathHasPrefix(path, "/v1/completions")
       THEN Rename(body, "max_completion_tokens")
  ELSE body

\* revision 2: always max_completion_tokens
RenameMaxTokens2(body, path) ==
  IF HasMaxTokens(body) THEN Rename(body, "max_completion_tokens") ELSE body

RenameMaxTokens(r, body, path) ==
  IF r = 1 THEN RenameMaxTokens1(body, path) ELSE RenameMaxTokens2(body, path)

(* ------------------------------ handler -------------------------------- *)
\* What the handler has done when it reaches its call of c.Next():
\*   stream         the bytes c.Request.Body still yields
\*   contentLength  c.Request.ContentLength
\*   deferred       the arguments of the pending deferred restore calls
\*   restores       the restore calls made so far
\*   next           the c.Next() calls the path makes
\*   abort          whether the path aborts the request
Reached(stream, contentLength, deferred, restores) ==
  [stream |-> stream, contentLength |-> contentLength, deferred |-> deferred,
   restores |-> restores, next |-> 1, abort |-> FALSE]

\* AfterRead with the c.Next() of the malformed-JSON exit left out
AfterReadM(r, path, raw, len0, env) ==
  LET u       == Unmarshal(raw)
      body    == RenameMaxTokens(r, DropSampling(u.body), path)
      patched == Marshal(body)
  IN  IF ~u.ok THEN [Reached(<<>>, len0, <<raw>>, 0) EXCEPT !.next = 0]
      ELSE IF ~isConstrainedModel(r, ModelOf(u.body), env)
           THEN Reached(<<>>, len0, <<raw>>, 0)
      ELSE IF patched.ok
           THEN Reached(patched.bytes, Len(patched.bytes), <<raw>>, 1)
      ELSE Reached(<<>>, len0, <<raw>>, 0)

\* The part of both revisions after the read: parse, classify, rewrite, restore
AfterRead(r, path, raw, len0, env) ==
  LET u       == Unmarshal(raw)
      body    == RenameMaxTokens(r, DropSampling(u.body), path)
      patched == Marshal(body)
  IN  IF ~u.ok THEN Reached(<<>>, len0, <<raw>>, 0)
      ELSE IF ~isConstrainedModel(r, ModelOf(u.body), env)
           THEN Reached(<<>>, len0, <<raw>>, 0)
      ELSE IF patched.ok
           THEN Reached(patched.bytes, Len(patched.bytes), <<raw>>, 1)
      ELSE Reached(<<>>, len0, <<raw>>, 0)

\* revision 1.  raw, err := io.ReadAll(c.Request.Body); after the read the
\* stream yields nothing more.
ConstrainedModelSanitizer1(method, path, inbound, raw, err, env) ==
  IF method # "POST" THEN Reached(inbound, Len(inbound), <<>>, 0)
  ELSE IF ~RouteMatch1(path) THEN Reached(inbound, Len(inbound), <<>>, 0)
  ELSE IF err \/ Len(raw) = 0 THEN Reached(<<>>, Len(inbound), <<>>, 0)
  ELSE AfterRead(1, path, raw, Len(inbound), env)

\* revision 2: the restore is deferred before the read result is looked at
ConstrainedModelSanitizer2(method, path, inbound, raw, err, env) ==
  IF method # "POST" \/ ~RouteMatch2(path)
  THEN Reached(inbound, Len(inbound), <<>>, 0)
  ELSE IF err \/ Len(raw) = 0 THEN Reached(<<>>, Len(inbound), <<raw>>, 0)
  ELSE AfterRead(2, path, raw, Len(inbound), env)

ConstrainedModelSanitizer(r, method, path, inbound, raw, err, env) ==
  IF r = 1 THEN ConstrainedModelSanitizer1(method, path, inbound, raw, err, env)
  ELSE ConstrainedModelSanitizer2(method, path, inbound, raw, err, env)

(* ------------------------------ inputs --------------------------------- *)
SeqUpTo(S, n) == UNION {[1..k -> S] : k \in 0..n}

O1    == <<"o","1">>
Gpt35 == <<"g","p","t","-","3",".","5">>

Members ==
  { Member("model", Str(O1)), Member("model", Str(Gpt35)), Member("model", Num(0, 1)),
    Member("temperature", Num(0, 0)), Member("temperature", Nested),
    Member("top_p", Null),
    Member("max_tokens", Num(0, 2)), Member("max_tokens", Num(1, 1)),
    Member("max_tokens", Null),
    Member("max_completion_tokens", Num(0, 1)),
    Member("max_output_tokens", Num(0, 1)),
    Member("seed", Num(1, 1)) }

\* request bodies: nothing, objects, and object texts that break off
Bodies ==
  {<<>>} \cup {Wrap(ms) : ms \in SeqUpTo(Members, MaxMembers)}
         \cup {<<LB>> \o ms : ms \in SeqUpTo(Members, 1)}

Paths ==
  { <<"/v1/chat/completions">>, <<"/v1/completions">>, <<"/v1/responses">>,
    <<"/v1/threads/", "t1", "/runs">>, <<"/v1/threads/", "t1", "/messages">>,
    <<"/v1/assistants", "/a1", "/runs">>, <<"/v1/embeddings">> }

Methods == {"POST", "GET"}

\* ONEAPI_CONSTRAINED_MODELS for the requests: unset, or naming gpt-3.5
RequestEnvs == {<<>>, Gpt35}

(* ------------------------------ state ---------------------------------- *)
VARIABLES
  rev,            \* the revision of the middleware that is installed
  env,            \* os.Getenv("ONEAPI_CONSTRAINED_MODELS")
  method,         \* c.Request.Method
  path,           \* c.Request.URL.Path
  inbound,        \* the body the client sent
  readErr,        \* whether io.ReadAll will fail on this request
  stream,         \* what c.Request.Body yields from here on
  contentLength,  \* c.Request.ContentLength
  deferred,       \* arguments of the deferred restore calls not yet run
  restores,       \* restore calls run for this request
  nextCalls,      \* c.Next() calls run for this request
  aborted,        \* whether the handler aborted the request
  seen,           \* the body the downstream handlers read in c.Next()
  pc,             \* "start", "next" (at c.Next()), "ret" (returning), "done"
  pass,           \* how many times this body has entered the middleware
  prevOut,        \* what downstream read on the previous pass
  cModel,         \* classifier run: the model name
  cVariant,       \* classifier run: the same name in another spelling
  cEnvVariant,    \* classifier run: the extension list in another spelling
  classified,     \* classifier run: whether the verdicts are in
  verdict         \* classifier run: the verdicts of isConstrainedModel

vars == << rev, env, method, path, inbound, readErr, stream, contentLength,
           deferred, restores, nextCalls, aborted, seen, pc, pass, prevOut,
           cModel, cVariant, cEnvVariant, classified, verdict >>

reqVars == << method, path, inbound, readErr, stream, contentLength, deferred,
              restores, nextCalls, aborted, seen, pc, pass, prevOut >>

clsVars == << cModel, cVariant, cEnvVariant, classified, verdict >>

NoVerdict == [model |-> FALSE, variant |-> FALSE, envVariant |-> FALSE]

Init ==
  /\ rev \in {1, 2}
  /\ env \in RequestEnvs
  /\ method \in Methods
  /\ path \in Paths
  /\ inbound \in Bodies
  /\ readErr \in BOOLEAN
  /\ stream = inbound
  /\ contentLength = Len(inbound)
  /\ deferred = <<>>
  /\ restores = 0
  /\ nextCalls = 0
  /\ aborted = FALSE
  /\ seen = <<>>
  /\ pc = "start"
  /\ pass = 1
  /\ prevOut = <<>>
  /\ cModel = <<>>
  /\ cVariant = <<>>
  /\ cEnvVariant = <<>>
  /\ classified = FALSE
  /\ verdict = NoVerdict

\* the handler runs from its entry to its call of c.Next()
Handle ==
  /\ pc = "start"
  /\ \E n \in 0..Len(inbound) :
       /\ readErr \/ n = Len(inbound)
       /\ LET r == ConstrainedModelSanitizer(rev, method, path, inbound,
                                             SubSeq(inbound, 1, n), readErr, env)
          IN  /\ stream' = r.stream
              /\ contentLength' = r.contentLength
              /\ deferred' = r.deferred
              /\ restores' = restores + r.restores
              /\ aborted' = r.abort
              /\ pc' = IF r.next > 0 THEN "next" ELSE "ret"
  /\ UNCHANGED << rev, env, method, path, inbound, readErr, nextCalls, seen,
                  pass, prevOut >>
  /\ UNCHANGED clsVars

\* c.Next(): the downstream handlers run inside the call and read the body
Dispatch ==
  /\ pc = "next"
  /\ seen' = stream
  /\ stream' = <<>>
  /\ nextCalls' = nextCalls + 1
  /\ pc' = "ret"
  /\ UNCHANGED << rev, env, method, path, inbound, readErr, contentLength,
                  deferred, restores, aborted, pass, prevOut >>
  /\ UNCHANGED clsVars

\* the handler returns: the deferred restore calls run
Return ==
  /\ pc = "ret"
  /\ IF deferred # <<>>
     THEN /\ stream' = deferred[1]
          /\ contentLength' = Len(deferred[1])
          /\ restores' = restores + 1
     ELSE UNCHANGED << stream, contentLength, restores >>
  /\ deferred' = <<>>
  /\ pc' = "done"
  /\ UNCHANGED << rev, env, method, path, inbound, readErr, nextCalls, aborted,
                  seen, pass, prevOut >>
  /\ UNCHANGED clsVars

\* the body downstream received after a rewrite is sent in again, same route
Replay ==
  /\ pc = "done"
  /\ pass < MaxPasses
  /\ restores = 2
  /\ inbound' = seen
  /\ stream' = seen
  /\ contentLength' = Len(seen)
  /\ prevOut' = seen
  /\ readErr' = FALSE
  /\ restores' = 0
  /\ nextCalls' = 0
  /\ seen' = <<>>
  /\ pass' = pass + 1
  /\ pc' = "start"
  /\ UNCHANGED << rev, env, method, path, deferred, aborted >>
  /\ UNCHANGED clsVars

Next == Handle \/ Dispatch \/ Return \/ Replay

Spec == Init /\ [][Next]_vars

(* ------------------------ classifier on its own ------------------------ *)
Foo == <<"f","o","o">>

\* model names, lower case and without padding; "" is one of them
BaseNames ==
  { <<>>, O1, <<"o","1","x">>, <<"o","3","-","x">>, <<"g","p","t","-","5">>,
    <<"g","p","t","-","4","o","-","m","i","n","i">>, Gpt35, Foo }

\* names an operator may put on the extension list
ExtNames == {Foo, Gpt35}

Pad(n) == [i \in 1..n |-> " "]

Title(s) == [i \in 1..Len(s) |-> IF i = 1 THEN ToUpperChar(s[i]) ELSE s[i]]

Cases == {"lower", "upper", "title"}

Recase(s, c) == IF c = "upper" THEN ToUpper(s) ELSE IF c = "title" THEN Title(s) ELSE s

\* s in another letter case and with l spaces before and r spaces after it
Respell(s, c, l, r) == Pad(l) \o Recase(s, c) \o Pad(r)

RECURSIVE Join(_)
Join(names) ==
  IF names = <<>> THEN <<>>
  ELSE IF Len(names) = 1 THEN names[1]
  ELSE names[1] \o <<",">> \o Join(Tail(names))

InitClassifier ==
  /\ rev \in {1, 2}
  /\ \E names \in SeqUpTo(ExtNames, MaxExt), c \in Cases, l \in 0..MaxPad, r \in 0..MaxPad :
       /\ env = Join(names)
       /\ cEnvVariant = Join([i \in 1..Len(names) |-> Respell(names[i], c, l, r)])
  /\ cModel \in BaseNames
  /\ \E c \in Cases, l \in 0..MaxPad, r \in 0..MaxPad : cVariant = Respell(cModel, c, l, r)
  /\ classified = FALSE
  /\ verdict = NoVerdict
  /\ method = "GET"
  /\ path = <<>>
  /\ inbound = <<>>
  /\ readErr = FALSE
  /\ stream = <<>>
  /\ contentLength = 0
  /\ deferred = <<>>
  /\ restores = 0
  /\ nextCalls = 0
  /\ aborted = FALSE
  /\ seen = <<>>
  /\ pc = "idle"
  /\ pass = 1
  /\ prevOut = <<>>

\* isConstrainedModel is called on the name, on its other spelling, and on the
\* name with the extension list in its other spelling
Classify ==
  /\ ~classified
  /\ verdict' = [model      |-> isConstrainedModel(rev, cModel, env),
                 variant    |-> isConstrainedModel(rev, cVariant, env),
                 envVariant |-> isConstrainedModel(rev, cModel, cEnvVariant)]
  /\ classified' = TRUE
  /\ UNCHANGED << rev, env, cModel, cVariant, cEnvVariant >>
  /\ UNCHANGED reqVars

NextClassifier == Classify

SpecClassifier == InitClassifier /\ [][NextClassifier]_vars

(* --------------------------- reading bodies ---------------------------- *)
\* the field names of an object text
Names(b) == {b[i].k : i \in 2..(Len(b) - 1)}

\* the value an object text gives the field k, as written
Field(b, k) == b[LastIndex(b, k)].v

TokenFields == {"max_tokens", "max_output_tokens", "max_completion_tokens"}

RewrittenFields == {"temperature", "top_p"} \cup TokenFields

\* the model string of the inbound body, "" when absent or not a string
InboundModel ==
  IF "model" \in Names(inbound) /\ Field(inbound, "model").t = "string"
  THEN Field(inbound, "model").s ELSE <<>>

\* a POST on a route the installed revision handles, read in full, valid JSON
Parsed == method = "POST" /\ RouteMatch(rev, path) /\ ~readErr /\ WellFormed(inbound)

Constrained == isConstrainedModel(rev, InboundModel, env)

\* downstream has run
Dispatched == nextCalls = 1

ChatStyle == PathHasPrefix(path, "/v1/chat/completions") \/ PathHasPrefix(path, "/v1/completions")

ResponsesStyle == PathHasPrefix(path, "/v1/responses")

RunStyle ==
  \/ (PathHasPrefix(path, "/v1/threads/") /\ PathContains(path, "/runs"))
  \/ (PathHasPrefix(path, "/v1/assistants") /\ PathContains(path, "/runs"))

\* the inbound body has a max_tokens that is not null
InboundMaxTokens ==
  "max_tokens" \in Names(inbound) /\ Field(inbound, "max_tokens").t # "null"

\* downstream's body has the field dst, holding the inbound dst if there was
\* one and the inbound max_tokens otherwise, and has no max_tokens
RenamedTo(dst) ==
  /\ "max_tokens" \notin Names(seen)
  /\ dst \in Names(seen)
  /\ Field(seen, dst) = IF dst \in Names(inbound) THEN Field(inbound, dst)
                        ELSE Field(inbound, "max_tokens")

(* ------------------------------ claims --------------------------------- *)
\* C1: a POST on a matched route whose body parses and whose model is not
\* constrained: the body downstream reads is the inbound body, byte for byte.
C1_NonInterference ==
  (Dispatched /\ Parsed /\ ~Constrained) => seen = inbound

\* C2: on a failure exit after the body was read (read error, malformed JSON)
\* the original bytes are back in the stream when downstream runs, and the
\* handler produces no error response.
C2_FailSafeRestore ==
  (Dispatched /\ method = "POST" /\ RouteMatch(rev, path) /\ inbound # <<>>
     /\ (readErr \/ ~WellFormed(inbound)))
  => (seen = inbound /\ ~aborted)

\* C3: for a constrained model on a matched route the body downstream reads
\* is an object with neither a temperature nor a top_p field.
C3_FieldRemoval ==
  (Dispatched /\ Parsed /\ Constrained)
  => (WellFormed(seen) /\ "temperature" \notin Names(seen) /\ "top_p" \notin Names(seen))

C3_Witness ==
  /\ Dispatched /\ Parsed /\ Constrained
  /\ "temperature" \in Names(inbound) /\ Field(inbound, "temperature") = Nested
  /\ "top_p" \in Names(inbound) /\ Field(inbound, "top_p") = Null
  /\ "model" \in Names(seen)

\* C4: for a constrained model with a non-null max_tokens, a responses-style
\* route yields max_output_tokens and a run-style route max_completion_tokens:
\* the destination takes the max_tokens value unless it was already there, in
\* which case it keeps its value, and max_tokens is gone.  With max_tokens
\* absent or null the token-limit fields are as in the inbound body.
C4_RenameByFamily ==
  (Dispatched /\ Parsed /\ Constrained /\ (ResponsesStyle \/ RunStyle))
  => /\ WellFormed(seen)
     /\ IF InboundMaxTokens
        THEN RenamedTo(IF ResponsesStyle THEN "max_output_tokens"
                       ELSE "max_completion_tokens")
        ELSE \A k \in TokenFields :
               /\ k \in Names(seen) <=> k \in Names(inbound)
               /\ k \in Names(seen) => Field(seen, k) = Field(inbound, k)

\* C5: the body downstream received after a rewrite, sent in again on the same
\* route, reaches downstream unchanged.
C5_Idempotent ==
  (pass > 1 /\ Dispatched) => seen = prevOut

C5_Witness ==
  /\ pass = 2 /\ Dispatched /\ seen = prevOut
  /\ ResponsesStyle
  /\ "max_output_tokens" \in Names(prevOut)
  /\ "seed" \in Names(prevOut)

\* C6 as stated: on a chat-style route for a constrained model, max_tokens
\* keeps its name and value in the body downstream reads (the code has no
\* compatibility flag, so the flag is never enabled).
C6_ChatKeepsMaxTokens ==
  (Dispatched /\ Parsed /\ Constrained /\ ChatStyle /\ InboundMaxTokens)
  => /\ "max_tokens" \in Names(seen)
     /\ Field(seen, "max_tokens") = Field(inbound, "max_tokens")

\* C6 amended: on a chat-style route for a constrained model with a non-null
\* max_tokens, the body downstream reads has no max_tokens and has
\* max_completion_tokens, holding the inbound max_completion_tokens if there
\* was one and the inbound max_tokens otherwise, each as encoding/json
\* re-encodes it (a number goes through float64).
C6_ChatRenames ==
  (Dispatched /\ Parsed /\ Constrained /\ ChatStyle /\ InboundMaxTokens)
  => /\ WellFormed(seen)
     /\ "max_tokens" \notin Names(seen)
     /\ "max_completion_tokens" \in Names(seen)
     /\ Field(seen, "max_completion_tokens") =
          Float64(IF "max_completion_tokens" \in Names(inbound)
                  THEN Field(inbound, "max_completion_tokens")
                  ELSE Field(inbound, "max_tokens"))

C6_Witness ==
  /\ Dispatched /\ Parsed /\ Constrained /\ ChatStyle /\ InboundMaxTokens
  /\ "max_completion_tokens" \notin Names(inbound)
  /\ "max_completion_tokens" \in Names(seen)
  /\ Field(seen, "max_completion_tokens") = Num(0, 2)

\* C8: on every path c.Next() runs exactly once before the handler returns,
\* never twice, and the handler never aborts the request.
C8_DispatchOnce ==
  /\ nextCalls <= 1
  /\ ~aborted
  /\ pc \in {"ret", "done"} => nextCalls = 1

C8_Witness ==
  /\ pc = "done" /\ nextCalls = 1
  /\ method = "POST" /\ RouteMatch(rev, path)
  /\ inbound # <<>> /\ ~readErr /\ ~WellFormed(inbound)

\* C9: after a rewrite every field other than temperature, top_p, max_tokens
\* and the token-limit destinations is in the body downstream reads with the
\* value the inbound body gave it, and no other field is added.
C9_Frame ==
  (Dispatched /\ Parsed /\ Constrained)
  => /\ WellFormed(seen)
     /\ \A k \in (Names(inbound) \cup Names(seen)) \ RewrittenFields :
          /\ k \in Names(inbound) /\ k \in Names(seen)
          /\ Field(seen, k) = Field(inbound, k)

\* C10: when the handler has returned from a request it read in full, the
\* stream was restored exactly once; it and the content length hold the
\* serialized bytes and their length after a rewrite, the original bytes and
\* their length otherwise.
C10_FinalStream ==
  (pc = "done" /\ method = "POST" /\ RouteMatch(rev, path) /\ ~readErr
     /\ inbound # <<>>)
  => /\ restores = 1
     /\ IF WellFormed(inbound) /\ Constrained
        THEN stream = seen /\ contentLength = Len(seen)
        ELSE stream = inbound /\ contentLength = Len(inbound)

\* C7: isConstrainedModel gives a model name and any spelling of it that
\* differs only in letter case or surrounding whitespace the same verdict, and
\* the same verdict when the extension-list entries are respelled that way;
\* an empty or all-whitespace model is never constrained.
C7_Normalization ==
  classified =>
    /\ verdict.variant = verdict.model
    /\ verdict.envVariant = verdict.model
    /\ cModel = <<>> => ~verdict.variant

====
